---- MODULE Spec2Model ----
(***************************************************************************)
(* Infinite calendar scroll: the month window engine of                    *)
(* src/hooks/useInfiniteScroll.ts, the calendar arithmetic of              *)
(* src/utils/dateUtils.ts and the parts of CalendarGrid that render the    *)
(* window and forward the visible month.                                   *)
(***************************************************************************)
EXTENDS Integers, Sequences, FiniteSets, TLC

(***************************************************************************)
(* Platform arithmetic (ECMAScript)                                        *)
(***************************************************************************)

\* The ECMAScript % operator: the result takes the sign of the dividend.
JSRem(a, n) == IF a >= 0 THEN a % n ELSE 0 - ((0 - a) % n)

Min(a, b) == IF a <= b THEN a ELSE b

Max(a, b) == IF a >= b THEN a ELSE b

Abs(a) == IF a >= 0 THEN a ELSE 0 - a

\* Day number (days since 1970-01-01) of a proleptic Gregorian date,
\* month m in 1..12.
DaysFromCivil(y, m, d) ==
    LET yy  == IF m <= 2 THEN y - 1 ELSE y
        era == yy \div 400
        yoe == yy - era * 400
        mp  == IF m > 2 THEN m - 3 ELSE m + 9
        doy == (153 * mp + 2) \div 5 + d - 1
        doe == yoe * 365 + yoe \div 4 - yoe \div 100 + doy
    IN  era * 146097 + doe - 719468

\* The Gregorian date of a day number, month in 0..11 as getMonth() reports.
CivilFromDays(z) ==
    LET zz  == z + 719468
        era == zz \div 146097
        doe == zz - era * 146097
        yoe == (doe - doe \div 1460 + doe \div 36524 - doe \div 146096) \div 365
        doy == doe - (365 * yoe + yoe \div 4 - yoe \div 100)
        mp  == (5 * doy + 2) \div 153
        d   == doy - (153 * mp + 2) \div 5 + 1
        m   == IF mp < 10 THEN mp + 3 ELSE mp - 9
        y   == yoe + era * 400 + (IF m <= 2 THEN 1 ELSE 0)
    IN  [year |-> y, month |-> m - 1, day |-> d]

\* new Date(year, month, day): month and day outside their range carry over
\* into the neighbouring months and years; the value is the day number.
JSDate(year, month, day) ==
    DaysFromCivil(year + month \div 12, (month % 12) + 1, 1) + (day - 1)

\* Date.prototype.getDay(): 0 = Sunday; 1970-01-01 was a Thursday.
GetDay(z) == (z + 4) % 7

(***************************************************************************)
(* dateUtils                                                               *)
(***************************************************************************)

getDaysInMonth(year, month) == CivilFromDays(JSDate(year, month + 1, 0)).day

\* getFirstDayOfWeek counting the weekday from Monday.
getFirstDayOfWeekMonday(year, month) == (GetDay(JSDate(year, month, 1)) + 6) % 7

getFirstDayOfWeek(year, month) == GetDay(JSDate(year, month, 1))

GridSlots == 42

\* The grid of one month; each Day keeps its date (as day number and as
\* calendar fields) and isCurrentMonth.
MkDay(z, cur) ==
    LET c == CivilFromDays(z)
    IN  [z |-> z, year |-> c.year, month |-> c.month, day |-> c.day,
         isCurrentMonth |-> cur]

\* generateMonthDays with the loop of the leading days starting one short.
generateMonthDaysShortLead(year, month) ==
    LET firstDay        == getFirstDayOfWeek(year, month)
        daysInMonth     == getDaysInMonth(year, month)
        daysInPrevMonth == getDaysInMonth(year, month - 1)
        lead  == [k \in 1..(firstDay - 1) |->
                    MkDay(JSDate(year, month - 1, daysInPrevMonth - (firstDay - 1 - k)), FALSE)]
        cur   == [d \in 1..daysInMonth |-> MkDay(JSDate(year, month, d), TRUE)]
        remainingSlots == GridSlots - (Len(lead) + Len(cur))
        trail == [d \in 1..remainingSlots |-> MkDay(JSDate(year, month + 1, d), FALSE)]
    IN  lead \o cur \o trail

generateMonthDays(year, month) ==
    LET firstDay        == getFirstDayOfWeek(year, month)
        daysInMonth     == getDaysInMonth(year, month)
        daysInPrevMonth == getDaysInMonth(year, month - 1)
        lead  == [k \in 1..firstDay |->
                    MkDay(JSDate(year, month - 1, daysInPrevMonth - (firstDay - k)), FALSE)]
        cur   == [d \in 1..daysInMonth |-> MkDay(JSDate(year, month, d), TRUE)]
        remainingSlots == GridSlots - (Len(lead) + Len(cur))
        trail == [d \in 1..remainingSlots |-> MkDay(JSDate(year, month + 1, d), FALSE)]
    IN  lead \o cur \o trail

generateMonths(startYear, startMonth, count) ==
    [k \in 1..count |->
        LET totalMonths == startMonth + (k - 1)
        IN  [year  |-> startYear + totalMonths \div 12,
             month |-> JSRem(totalMonths, 12)]]

getPreviousMonth(year, month) ==
    IF month = 0 THEN [year |-> year - 1, month |-> 11]
                 ELSE [year |-> year, month |-> month - 1]

\* getNextMonth without the year wrap.
getNextMonthSameYear(year, month) ==
    IF month = 11 THEN [year |-> year, month |-> 0]
                  ELSE [year |-> year, month |-> month + 1]

getNextMonth(year, month) ==
    IF month = 11 THEN [year |-> year + 1, month |-> 0]
                  ELSE [year |-> year, month |-> month + 1]

(***************************************************************************)
(* useInfiniteScroll: constants                                            *)
(***************************************************************************)

bufferMonths == 3

ExpandBatch == 2

ScrollThreshold == 500

ScrollCompensation == 1000

InitLoadDelay == 200

ExpandDelay == 50

UnlockDelay == 100

CompensateDelay == 100

JumpDelay == 100

JumpScrollDelay == 100

InitDetectDelay == 100

throttleDelay == 16

\* Layout of the rendered list: every month block has the same height.
MonthHeight == 600

ClientHeight == 800

\* Bounds of the exploration.
MaxTimers == 3

MaxWindow == 11

Null == [year |-> 0, month |-> 0, ref |-> 0]

InitialYears == {2024}

InitialMonths == {1, 7}

\* The header always asks for January of the year entered.
JumpTargets == {[year |-> 2025, month |-> 0]}

(***************************************************************************)
(* useInfiniteScroll: pure parts                                           *)
(***************************************************************************)

Key(m) == <<m.year, m.month>>

Keys(ms) == {Key(ms[i]) : i \in 1..Len(ms)}

\* Array.prototype.filter with a Set of seen keys: keeps the first
\* occurrence of every key.
removeDuplicateMonths(ms) ==
    SelectSeq([i \in 1..Len(ms) |-> [m |-> ms[i], i |-> i]],
              LAMBDA e : \A j \in 1..(e.i - 1) : Key(ms[j]) # Key(e.m))

Unwrap(es) == [i \in 1..Len(es) |-> es[i].m]

\* The comparator of the initial load: the initial month sorts before every
\* other month, the others keep their order (Array.prototype.sort is stable).
SortInitialFirst(ms, y, m) ==
    SelectSeq(ms, LAMBDA e : e.year = y /\ e.month = m)
      \o SelectSeq(ms, LAMBDA e : ~(e.year = y /\ e.month = m))

InitialLoadMonths(y, m) ==
    SortInitialFirst(
        Unwrap(removeDuplicateMonths(
            generateMonths(y, m - bufferMonths, bufferMonths * 2 + 1))), y, m)

\* loadMoreMonthsEnd generating from the last month itself instead of its
\* successor.
loadMoreMonthsEndUpdateFromLast(prevMonths) ==
    IF Len(prevMonths) = 0 THEN prevMonths
    ELSE LET lastMonth == prevMonths[Len(prevMonths)]
             newMonths == generateMonths(lastMonth.year, lastMonth.month, ExpandBatch)
             uniqueNewMonths ==
                 SelectSeq(newMonths, LAMBDA e : Key(e) \notin Keys(prevMonths))
         IN  prevMonths \o uniqueNewMonths

\* The updater handed to setMonths by loadMoreMonthsEnd.
loadMoreMonthsEndUpdate(prevMonths) ==
    IF Len(prevMonths) = 0 THEN prevMonths
    ELSE LET lastMonth == prevMonths[Len(prevMonths)]
             nxt       == getNextMonth(lastMonth.year, lastMonth.month)
             newMonths == generateMonths(nxt.year, nxt.month, ExpandBatch)
             uniqueNewMonths ==
                 SelectSeq(newMonths, LAMBDA e : Key(e) \notin Keys(prevMonths))
         IN  prevMonths \o uniqueNewMonths

\* loadMoreMonthsStart without the filter on the existing keys.
loadMoreMonthsStartUpdateNoFilter(prevMonths) ==
    IF Len(prevMonths) = 0 THEN prevMonths
    ELSE LET firstMonth == prevMonths[1]
             prv       == getPreviousMonth(firstMonth.year, firstMonth.month)
             newMonths == generateMonths(prv.year, prv.month, ExpandBatch)
         IN  newMonths \o prevMonths

\* The updater handed to setMonths by loadMoreMonthsStart.
loadMoreMonthsStartUpdate(prevMonths) ==
    IF Len(prevMonths) = 0 THEN prevMonths
    ELSE LET firstMonth == prevMonths[1]
             prv       == getPreviousMonth(firstMonth.year, firstMonth.month)
             newMonths == generateMonths(prv.year, prv.month, ExpandBatch)
             uniqueNewMonths ==
                 SelectSeq(newMonths, LAMBDA e : Key(e) \notin Keys(prevMonths))
         IN  uniqueNewMonths \o prevMonths

\* The window a jump installs.
JumpMonths(targetYear, targetMonth) ==
    Unwrap(removeDuplicateMonths(
        generateMonths(targetYear, targetMonth - bufferMonths,
                       bufferMonths * 2 + 1)))

(***************************************************************************)
(* Layout of the scroll container (CalendarGrid)                           *)
(***************************************************************************)

ScrollHeight(ms) == Len(ms) * MonthHeight

MaxScrollTop(ms) == Max(0, ScrollHeight(ms) - ClientHeight)

Clamp(s, ms) == Max(0, Min(s, MaxScrollTop(ms)))

\* Twice the distance between the centre of the i-th month block and the
\* centre of the container.
Distance2(i, s) == Abs((2 * i - 1) * MonthHeight - 2 * s - ClientHeight)

\* forEach with a strict comparison: the first block of minimal distance.
ClosestIndex(n, s) ==
    CHOOSE i \in 1..n :
        /\ \A j \in 1..(i - 1) : Distance2(j, s) > Distance2(i, s)
        /\ \A j \in (i + 1)..n : Distance2(j, s) >= Distance2(i, s)

\* data-month is `${year}-${month}`; split('-').map(Number) reads it back.
\* A negative month leaves an empty second field, which Number reads as 0.
ParseDataMonth(m) ==
    IF m.month < 0 THEN [year |-> m.year, month |-> 0]
                   ELSE [year |-> m.year, month |-> m.month]

\* The (closestYear, closestMonth) a detection pass ends with.
Closest(ms, s) ==
    IF Len(ms) = 0 THEN [year |-> 0, month |-> 0]
    ELSE ParseDataMonth(ms[ClosestIndex(Len(ms), s)])

\* scrollIntoView({block: 'center'}) of the i-th block.
CenterScrollTop(i, ms) ==
    Clamp(((2 * i - 1) * MonthHeight - ClientHeight) \div 2, ms)

\* Positions the user scrolls to: the ends, the fourth block centred, and
\* the position where the first two blocks are equally far from the centre.
ScrollTargets(ms) ==
    {0, MaxScrollTop(ms), CenterScrollTop(4, ms),
     Clamp((2 * MonthHeight - ClientHeight) \div 2, ms)}

(***************************************************************************)
(* State                                                                   *)
(***************************************************************************)

VARIABLES
    phase,               \* "new" (constructed), "mounted", "unmounted"
    initialYear,         \* props of the hook
    initialMonth,
    months,              \* the month window (useState)
    isLoading,           \* useState
    isScrollLocked,      \* useState
    currentVisibleMonth, \* useState; ref is the identity of the object
    hIsLoading,          \* isLoading as the registered scroll handler sees it
    hIsScrollLocked,     \* isScrollLocked as that handler sees it
    hVisibleMonth,       \* currentVisibleMonth as detectVisibleMonth sees it
    listener,            \* the scroll listener is registered
    timers,              \* pending setTimeout callbacks, in scheduling order
    rafQueue,            \* pending requestAnimationFrame callbacks
    ticking,             \* closure variable of the throttled handler
    recentScroll,        \* Date.now() - lastScrollTime < throttleDelay
    rafAged,             \* throttleDelay has passed since the pending frame was requested
    scrollTop,           \* scroll offset of the container
    lateRuns,            \* a hook callback ran after the unmount
    lastOp,              \* the step taken last and what it observed
    calcIn,              \* arguments of a call of a dateUtils function
    calcOut,             \* its result
    entriesByDate,       \* CalendarPage: useState, the loaded journal
    isModalOpen,         \* CalendarPage: useState
    selectedEntries,     \* CalendarPage: useState
    currentEntryIndex,   \* CalendarPage: useState
    isAnimating,         \* SwipeNavigator: useState of the mounted modal
    navTimers,           \* pending setTimeout callbacks of the modal
    modalOp              \* the modal step taken last

vars == <<phase, initialYear, initialMonth, months, isLoading, isScrollLocked,
          currentVisibleMonth, hIsLoading, hIsScrollLocked, hVisibleMonth,
          listener, timers, rafQueue, ticking, recentScroll, rafAged,
          scrollTop, lateRuns, lastOp, calcIn, calcOut, entriesByDate,
          isModalOpen, selectedEntries, currentEntryIndex, isAnimating,
          navTimers, modalOp>>

props == <<initialYear, initialMonth>>

page == <<entriesByDate, isModalOpen, selectedEntries, currentEntryIndex,
          isAnimating, navTimers, modalOp>>

\* What the hook never touches: the calls made on their own and the page.
calc == <<calcIn, calcOut, page>>

NoCall == [fn |-> "none", year |-> 0, month |-> 0, count |-> 0]

NoMonth == [year |-> 0, month |-> 0]

Timer(kind, rem, target, top) ==
    [kind |-> kind, rem |-> rem, year |-> target.year, month |-> target.month,
     top |-> top, pre |-> 0]

Op(op, sel, prev, added, top, pre, notified) ==
    [op |-> op, sel |-> sel, prev |-> prev, added |-> added, top |-> top,
     pre |-> pre, notified |-> notified]

\* A state object distinct from the object it replaces.
NewVisible(year, month, old) ==
    [year |-> year, month |-> month, ref |-> IF old.ref = 1 THEN 2 ELSE 1]

RemoveAt(seq, i) == SubSeq(seq, 1, i - 1) \o SubSeq(seq, i + 1, Len(seq))

\* setTimeout callbacks run in order of their due time, then of scheduling.
Due(i) ==
    /\ i \in 1..Len(timers)
    /\ timers[i].rem = 0
    /\ \A j \in 1..(i - 1) : timers[j].rem # 0

CountKind(ts, kinds) == Cardinality({i \in 1..Len(ts) : ts[i].kind \in kinds})

Mounted == phase = "mounted"

EngineInit ==
    /\ phase = "new"
    /\ initialYear \in InitialYears
    /\ initialMonth \in InitialMonths
    /\ months = <<>>
    /\ isLoading = FALSE
    /\ isScrollLocked = FALSE
    /\ currentVisibleMonth = Null
    /\ hIsLoading = FALSE
    /\ hIsScrollLocked = FALSE
    /\ hVisibleMonth = Null
    /\ listener = FALSE
    /\ timers = <<>>
    /\ rafQueue = 0
    /\ ticking = FALSE
    /\ recentScroll = FALSE
    /\ rafAged = FALSE
    /\ scrollTop = 0
    /\ lateRuns = FALSE
    /\ lastOp = Op("new", NoMonth, Null, 0, 0, 0, FALSE)

\* The page before the journal is loaded: no entries, the modal closed.
PageIdle ==
    /\ entriesByDate = [k \in {} |-> <<>>]
    /\ isModalOpen = FALSE
    /\ selectedEntries = <<>>
    /\ currentEntryIndex = 0
    /\ isAnimating = FALSE
    /\ navTimers = <<>>
    /\ modalOp = [op |-> "none", index |-> 0, live |-> TRUE, id |-> <<>>]

Init ==
    /\ EngineInit
    /\ calcIn = NoCall
    /\ calcOut = <<>>
    /\ PageIdle

(***************************************************************************)
(* Mount: the first commit runs the initialize effect, the throttle       *)
(* effect and the listener effect with the closures of the first render.   *)
(***************************************************************************)
Mount ==
    /\ phase = "new"
    /\ phase' = "mounted"
    /\ months' = generateMonths(initialYear, initialMonth, 1)
    /\ currentVisibleMonth' = NewVisible(initialYear, initialMonth, currentVisibleMonth)
    /\ hIsLoading' = isLoading
    /\ hIsScrollLocked' = isScrollLocked
    /\ hVisibleMonth' = currentVisibleMonth
    /\ listener' = TRUE
    /\ timers' = <<Timer("initLoad", InitLoadDelay, NoMonth, 0),
                   Timer("initDetect", InitDetectDelay, NoMonth, 0)>>
    /\ lastOp' = Op("mount", [year |-> initialYear, month |-> initialMonth],
                    currentVisibleMonth, 1, 0, 0, TRUE)
    /\ UNCHANGED <<props, calc, isLoading, isScrollLocked,
                   rafQueue, ticking, recentScroll, rafAged, scrollTop, lateRuns>>

\* The cleanups of the effects: the initial load is cancelled and the scroll
\* listener removed; the container ref becomes null.
Unmount ==
    /\ Mounted
    /\ phase' = "unmounted"
    /\ timers' = SelectSeq(timers, LAMBDA t : t.kind # "initLoad")
    /\ listener' = FALSE
    /\ lastOp' = Op("unmount", NoMonth, currentVisibleMonth, 0, 0, 0, FALSE)
    /\ UNCHANGED <<props, calc, months, isLoading, isScrollLocked,
                   currentVisibleMonth, hIsLoading, hIsScrollLocked,
                   hVisibleMonth, rafQueue, ticking, recentScroll, rafAged,
                   scrollTop, lateRuns>>

closure == <<hIsLoading, hIsScrollLocked, hVisibleMonth>>

throttle == <<rafQueue, ticking, recentScroll, rafAged>>

\* The throttled handler without its ticking flag.
DispatchScrollNoTicking ==
    IF listener /\ ~recentScroll
    THEN /\ rafQueue' = rafQueue + 1
         /\ ticking' = TRUE
         /\ rafAged' = FALSE
         /\ UNCHANGED recentScroll
    ELSE UNCHANGED throttle

\* The listener registered on the container: throttledScrollHandlerRef.current
\* of the first render.
DispatchScroll ==
    IF listener /\ ~ticking /\ ~recentScroll
    THEN /\ rafQueue' = rafQueue + 1
         /\ ticking' = TRUE
         /\ rafAged' = FALSE
         /\ UNCHANGED recentScroll
    ELSE UNCHANGED throttle

\* The value of currentVisibleMonth after a detection pass; captured is the
\* currentVisibleMonth of the closure.
detectVisibleMonth(ms, s, cur, captured) ==
    LET c == Closest(ms, s)
        shouldUpdate == \/ captured = Null
                        \/ c.year # captured.year
                        \/ c.month # captured.month
    IN  IF c.year > 0 /\ c.month > 0 /\ shouldUpdate
        THEN NewVisible(c.year, c.month, cur)
        ELSE cur

\* The user moves the scroll position of the container.
UserScroll ==
    /\ Mounted
    /\ \E s \in ScrollTargets(months) :
          /\ s # scrollTop
          /\ scrollTop' = s
    /\ DispatchScroll
    /\ lastOp' = Op("scroll", NoMonth, currentVisibleMonth, 0, 0, 0, FALSE)
    /\ UNCHANGED <<phase, props, calc, months, isLoading, isScrollLocked,
                   currentVisibleMonth, closure, listener, timers, lateRuns>>

\* The frame callback of the throttled handler: handleScroll.
Frame ==
    /\ rafQueue > 0
    /\ rafQueue' = rafQueue - 1
    /\ ticking' = FALSE
    /\ recentScroll' = ~rafAged
    /\ rafAged' = FALSE
    /\ IF ~Mounted \/ hIsScrollLocked
       THEN /\ lateRuns' = (lateRuns \/ ~Mounted)
            /\ lastOp' = Op("frameSkipped", NoMonth, currentVisibleMonth, 0, 0, 0, FALSE)
            /\ UNCHANGED <<isLoading, isScrollLocked, currentVisibleMonth, timers>>
       ELSE LET nearBottom == scrollTop + ClientHeight >= ScrollHeight(months) - ScrollThreshold
                nearTop    == scrollTop <= ScrollThreshold
                accepted   == ~(hIsLoading \/ hIsScrollLocked)
                endT   == IF nearBottom /\ accepted
                          THEN <<Timer("expandEnd", ExpandDelay, NoMonth, 0)>> ELSE <<>>
                startT == IF nearTop /\ accepted
                          THEN <<Timer("expandStart", ExpandDelay, NoMonth, 0)>> ELSE <<>>
                compT  == IF nearTop
                          THEN <<Timer("compensate", CompensateDelay, NoMonth, scrollTop)>>
                          ELSE <<>>
                newT   == endT \o startT \o compT
                cvm    == detectVisibleMonth(months, scrollTop, currentVisibleMonth,
                                             hVisibleMonth)
            IN  /\ Len(timers) + Len(newT) <= MaxTimers
                /\ Len(months) + ExpandBatch * CountKind(timers \o newT,
                                      {"expandEnd", "expandStart"}) <= MaxWindow
                /\ timers' = timers \o newT
                /\ isLoading' = (isLoading \/ Len(endT \o startT) > 0)
                /\ isScrollLocked' = (isScrollLocked \/ Len(endT \o startT) > 0)
                /\ currentVisibleMonth' = cvm
                /\ lastOp' = Op("frame", Closest(months, scrollTop), currentVisibleMonth,
                                Len(endT \o startT), scrollTop, 0,
                                cvm # currentVisibleMonth)
                /\ UNCHANGED lateRuns
    /\ UNCHANGED <<phase, props, calc, months, closure, listener, scrollTop>>

\* The delayed load of the initialize effect.
FireInitLoad ==
    \E i \in 1..Len(timers) :
        /\ Due(i)
        /\ timers[i].kind = "initLoad"
        /\ timers' = RemoveAt(timers, i)
        /\ months' = InitialLoadMonths(initialYear, initialMonth)
        /\ scrollTop' = Clamp(scrollTop, months')
        /\ lastOp' = Op("initLoad", [year |-> initialYear, month |-> initialMonth],
                        currentVisibleMonth, Len(months') - Len(months), 0, 0, FALSE)
        /\ UNCHANGED <<phase, props, calc, isLoading, isScrollLocked, currentVisibleMonth,
                       closure, listener, throttle, lateRuns>>

\* The initial visible-month detection of the listener effect.
FireInitDetect ==
    \E i \in 1..Len(timers) :
        /\ Due(i)
        /\ timers[i].kind = "initDetect"
        /\ timers' = RemoveAt(timers, i)
        /\ IF Mounted
           THEN LET cvm == detectVisibleMonth(months, scrollTop, currentVisibleMonth,
                                              hVisibleMonth)
                IN  /\ currentVisibleMonth' = cvm
                    /\ lastOp' = Op("initDetect", Closest(months, scrollTop),
                                    currentVisibleMonth, 0, scrollTop, 0,
                                    cvm # currentVisibleMonth)
                    /\ UNCHANGED lateRuns
           ELSE /\ lateRuns' = TRUE
                /\ lastOp' = Op("late", NoMonth, currentVisibleMonth, 0, 0, 0, FALSE)
                /\ UNCHANGED currentVisibleMonth
        /\ UNCHANGED <<phase, props, calc, months, isLoading, isScrollLocked, closure,
                       listener, throttle, scrollTop>>

\* What the callback of an expansion timer does; newMonths is what its
\* setMonths updater returns for the current window, kind the timer.
FireExpand(kind, newMonths) ==
    \E i \in 1..Len(timers) :
        /\ Due(i)
        /\ timers[i].kind = kind
        /\ LET added == Len(newMonths) - Len(months)
               rest  == RemoveAt(timers, i)
               \* bookkeeping: months prepended since a compensation was scheduled
               noted == [j \in 1..Len(rest) |->
                           IF rest[j].kind = "compensate" /\ kind = "expandStart" /\ Mounted
                           THEN [rest[j] EXCEPT !.pre = @ + added]
                           ELSE rest[j]]
           IN  /\ timers' = noted \o <<Timer("unlock", UnlockDelay, NoMonth, 0)>>
               /\ IF Mounted
                  THEN /\ months' = newMonths
                       /\ isLoading' = FALSE
                       /\ scrollTop' = Clamp(scrollTop, months')
                       /\ lastOp' = Op(kind, NoMonth, currentVisibleMonth, added, 0, 0, FALSE)
                       /\ UNCHANGED lateRuns
                  ELSE /\ lateRuns' = TRUE
                       /\ lastOp' = Op("late", NoMonth, currentVisibleMonth, 0, 0, 0, FALSE)
                       /\ UNCHANGED <<months, isLoading, scrollTop>>
        /\ UNCHANGED <<phase, props, calc, isScrollLocked, currentVisibleMonth, closure,
                       listener, throttle>>

FireExpandEnd == FireExpand("expandEnd", loadMoreMonthsEndUpdate(months))

FireExpandStart == FireExpand("expandStart", loadMoreMonthsStartUpdate(months))

\* The unlock timer without setIsScrollLocked(false).
FireUnlockKeepsLock ==
    \E i \in 1..Len(timers) :
        /\ Due(i)
        /\ timers[i].kind = "unlock"
        /\ timers' = RemoveAt(timers, i)
        /\ lastOp' = Op("unlock", NoMonth, currentVisibleMonth, 0, 0, 0, FALSE)
        /\ UNCHANGED <<phase, props, calc, months, isLoading, isScrollLocked,
                       currentVisibleMonth, closure, listener, throttle, scrollTop,
                       lateRuns>>

\* setTimeout(() => setIsScrollLocked(false), 100)
FireUnlock ==
    \E i \in 1..Len(timers) :
        /\ Due(i)
        /\ timers[i].kind = "unlock"
        /\ timers' = RemoveAt(timers, i)
        /\ IF Mounted
           THEN /\ isScrollLocked' = FALSE
                /\ lastOp' = Op("unlock", NoMonth, currentVisibleMonth, 0, 0, 0, FALSE)
                /\ UNCHANGED lateRuns
           ELSE /\ lateRuns' = TRUE
                /\ lastOp' = Op("late", NoMonth, currentVisibleMonth, 0, 0, 0, FALSE)
                /\ UNCHANGED isScrollLocked
        /\ UNCHANGED <<phase, props, calc, months, isLoading, currentVisibleMonth, closure,
                       listener, throttle, scrollTop>>

\* The scroll offset the compensation of handleScroll writes; currentScrollTop
\* is the offset read by the scroll evaluation.
CompensatedScrollTop(currentScrollTop, ms) ==
    Clamp(currentScrollTop + ScrollCompensation, ms)

FireCompensate ==
    \E i \in 1..Len(timers) :
        /\ Due(i)
        /\ timers[i].kind = "compensate"
        /\ timers' = RemoveAt(timers, i)
        /\ IF Mounted
           THEN /\ scrollTop' = CompensatedScrollTop(timers[i].top, months)
                /\ IF scrollTop' # scrollTop THEN DispatchScroll ELSE UNCHANGED throttle
                /\ lastOp' = Op("compensate", NoMonth, currentVisibleMonth, 0,
                                timers[i].top, timers[i].pre, FALSE)
                /\ UNCHANGED lateRuns
           ELSE /\ lateRuns' = TRUE
                /\ lastOp' = Op("late", NoMonth, currentVisibleMonth, 0, 0, 0, FALSE)
                /\ UNCHANGED <<scrollTop, throttle>>
        /\ UNCHANGED <<phase, props, calc, months, isLoading, isScrollLocked,
                       currentVisibleMonth, closure, listener>>

\* jumpToYear without its isLoading guard.
RequestJumpUnguarded ==
    /\ Mounted
    /\ \E t \in JumpTargets :
          /\ Len(timers) < MaxTimers
          /\ isLoading' = TRUE
          /\ timers' = Append(timers, Timer("jump", JumpDelay, t, 0))
          /\ lastOp' = Op("jumpRequested", t, currentVisibleMonth, 0, 0, 0, FALSE)
    /\ UNCHANGED <<phase, props, calc, months, isScrollLocked, currentVisibleMonth,
                   closure, listener, throttle, scrollTop, lateRuns>>

\* jumpToYear(targetYear, targetMonth), as the header reaches it.
RequestJump ==
    /\ Mounted
    /\ \E t \in JumpTargets :
          IF isLoading
          THEN /\ lastOp' = Op("jumpDropped", t, currentVisibleMonth, 0, 0, 0, FALSE)
               /\ UNCHANGED <<isLoading, timers>>
          ELSE /\ Len(timers) < MaxTimers
               /\ isLoading' = TRUE
               /\ timers' = Append(timers, Timer("jump", JumpDelay, t, 0))
               /\ lastOp' = Op("jumpRequested", t, currentVisibleMonth, 0, 0, 0, FALSE)
    /\ UNCHANGED <<phase, props, calc, months, isScrollLocked, currentVisibleMonth,
                   closure, listener, throttle, scrollTop, lateRuns>>

FireJump ==
    \E i \in 1..Len(timers) :
        /\ Due(i)
        /\ timers[i].kind = "jump"
        /\ LET t == [year |-> timers[i].year, month |-> timers[i].month]
           IN  /\ timers' = Append(RemoveAt(timers, i),
                                   Timer("jumpScroll", JumpScrollDelay, t, 0))
               /\ IF Mounted
                  THEN /\ months' = JumpMonths(t.year, t.month)
                       /\ currentVisibleMonth' =
                              NewVisible(t.year, t.month, currentVisibleMonth)
                       /\ isLoading' = FALSE
                       /\ scrollTop' = Clamp(scrollTop, months')
                       /\ lastOp' = Op("jump", t, currentVisibleMonth,
                                       Len(months'), 0, 0, TRUE)
                       /\ UNCHANGED lateRuns
                  ELSE /\ lateRuns' = TRUE
                       /\ lastOp' = Op("late", NoMonth, currentVisibleMonth, 0, 0, 0, FALSE)
                       /\ UNCHANGED <<months, currentVisibleMonth, isLoading, scrollTop>>
        /\ UNCHANGED <<phase, props, calc, isScrollLocked, closure, listener, throttle>>

\* The delayed scrollIntoView of the target of a jump: querySelector finds
\* the first block whose data-month equals `${targetYear}-${targetMonth}`.
FireJumpScroll ==
    \E i \in 1..Len(timers) :
        /\ Due(i)
        /\ timers[i].kind = "jumpScroll"
        /\ timers' = RemoveAt(timers, i)
        /\ LET t     == <<timers[i].year, timers[i].month>>
               found == {k \in 1..Len(months) : Key(months[k]) = t}
           IN  IF Mounted
               THEN /\ IF found # {}
                       THEN scrollTop' = CenterScrollTop(
                                CHOOSE k \in found : \A l \in found : k <= l, months)
                       ELSE UNCHANGED scrollTop
                    /\ IF scrollTop' # scrollTop THEN DispatchScroll ELSE UNCHANGED throttle
                    /\ lastOp' = Op("jumpScroll", [year |-> t[1], month |-> t[2]],
                                    currentVisibleMonth, Cardinality(found), scrollTop', 0,
                                    FALSE)
                    /\ UNCHANGED lateRuns
               ELSE /\ lateRuns' = TRUE
                    /\ lastOp' = Op("late", NoMonth, currentVisibleMonth, 0, 0, 0, FALSE)
                    /\ UNCHANGED <<scrollTop, throttle>>
        /\ UNCHANGED <<phase, props, calc, months, isLoading, isScrollLocked,
                       currentVisibleMonth, closure, listener>>

\* Time passes up to the next due timer.
MinRem == CHOOSE r \in {timers[i].rem : i \in 1..Len(timers)} :
              \A i \in 1..Len(timers) : r <= timers[i].rem

Tick ==
    /\ timers # <<>>
    /\ \A i \in 1..Len(timers) : timers[i].rem > 0
    /\ LET d == MinRem
       IN  /\ timers' = [i \in 1..Len(timers) |-> [timers[i] EXCEPT !.rem = @ - d]]
           /\ recentScroll' = (recentScroll /\ d < throttleDelay)
           /\ rafAged' = (rafQueue > 0 /\ (rafAged \/ d >= throttleDelay))
    /\ lastOp' = Op("tick", NoMonth, currentVisibleMonth, 0, 0, 0, FALSE)
    /\ UNCHANGED <<phase, props, calc, months, isLoading, isScrollLocked,
                   currentVisibleMonth, closure, listener, rafQueue, ticking,
                   scrollTop, lateRuns>>

\* throttleDelay passes without any timer becoming due.
Elapse ==
    /\ recentScroll \/ (rafQueue > 0 /\ ~rafAged)
    /\ recentScroll' = FALSE
    /\ rafAged' = (rafQueue > 0)
    /\ lastOp' = Op("elapse", NoMonth, currentVisibleMonth, 0, 0, 0, FALSE)
    /\ UNCHANGED <<phase, props, calc, months, isLoading, isScrollLocked,
                   currentVisibleMonth, closure, listener, timers, rafQueue,
                   ticking, scrollTop, lateRuns>>

Next ==
    \/ Mount
    \/ Unmount
    \/ UserScroll
    \/ Frame
    \/ FireInitLoad
    \/ FireInitDetect
    \/ FireExpandEnd
    \/ FireExpandStart
    \/ FireUnlock
    \/ FireCompensate
    \/ RequestJump
    \/ FireJump
    \/ FireJumpScroll
    \/ Tick
    \/ Elapse

Spec == Init /\ [][Next]_vars

(***************************************************************************)
(* The hook under fair scheduling of the timer queue: due timer callbacks   *)
(* run and time advances to the next timer.  The user scrolls to the two    *)
(* edges only and the window is capped lower.                               *)
(***************************************************************************)
LiveWindow == 9

LiveInputs ==
    /\ lastOp'.op = "scroll" => scrollTop' \in {0, MaxScrollTop(months)}
    /\ lastOp'.op = "frame" =>
          Len(months) + ExpandBatch * CountKind(timers', {"expandEnd", "expandStart"})
             <= LiveWindow

NextLive ==
    \/ Mount /\ LiveInputs
    \/ Unmount /\ LiveInputs
    \/ UserScroll /\ LiveInputs
    \/ Frame /\ LiveInputs
    \/ FireInitLoad /\ LiveInputs
    \/ FireInitDetect /\ LiveInputs
    \/ FireExpandEnd /\ LiveInputs
    \/ FireExpandStart /\ LiveInputs
    \/ FireUnlock /\ LiveInputs
    \/ FireCompensate /\ LiveInputs
    \/ RequestJump /\ LiveInputs
    \/ FireJump /\ LiveInputs
    \/ FireJumpScroll /\ LiveInputs
    \/ Tick /\ LiveInputs
    \/ Elapse /\ LiveInputs

\* The steps of the timer queue: a due callback runs, or time advances.
TimerStep ==
    \/ Tick
    \/ FireInitLoad
    \/ FireInitDetect
    \/ FireExpandEnd
    \/ FireExpandStart
    \/ FireUnlock
    \/ FireCompensate
    \/ FireJump
    \/ FireJumpScroll

TimersFair == WF_vars(TimerStep)

SpecLive == Init /\ [][NextLive]_vars /\ TimersFair

TypeOK ==
    /\ phase \in {"new", "mounted", "unmounted"}
    /\ isLoading \in BOOLEAN
    /\ isScrollLocked \in BOOLEAN
    /\ Len(timers) <= MaxTimers
    /\ Len(months) <= MaxWindow
    /\ rafQueue \in 0..1
    /\ scrollTop \in 0..MaxScrollTop(months)

(***************************************************************************)
(* Strings (ECMAScript): a string is the sequence of its characters         *)
(***************************************************************************)
Digits == <<"0", "1", "2", "3", "4", "5", "6", "7", "8", "9">>

Undefined == <<"u", "n", "d", "e", "f", "i", "n", "e", "d">>

RECURSIVE NumToStr(_)
NumToStr(n) ==
    IF n < 10 THEN <<Digits[n + 1]>>
              ELSE NumToStr(n \div 10) \o <<Digits[(n % 10) + 1]>>

DigitVal(c) == CHOOSE d \in 0..9 : Digits[d + 1] = c

RECURSIVE StrToNum(_)
StrToNum(str) ==
    IF str = <<>> THEN 0
    ELSE 10 * StrToNum(SubSeq(str, 1, Len(str) - 1)) + DigitVal(str[Len(str)])

RECURSIVE Split(_, _)
Split(str, sep) ==
    LET at == {i \in 1..Len(str) : str[i] = sep}
    IN  IF at = {} THEN <<str>>
        ELSE LET i == CHOOSE x \in at : \A y \in at : x <= y
             IN  <<SubSeq(str, 1, i - 1)>> \o Split(SubSeq(str, i + 1, Len(str)), sep)

padStart2(str) ==
    IF Len(str) >= 2 THEN str
    ELSE [k \in 1..(2 - Len(str)) |-> "0"] \o str

RemoveSlashes(str) == SelectSeq(str, LAMBDA c : c # "/")

(***************************************************************************)
(* dateUtils: ISO keys, and the journal entries of a month grid             *)
(***************************************************************************)
formatDateToISO(z) ==
    LET c == CivilFromDays(z)
    IN  NumToStr(c.year) \o <<"-">> \o padStart2(NumToStr(c.month + 1))
          \o <<"-">> \o padStart2(NumToStr(c.day))

\* A result is a value or a thrown error.
Return(v) == [threw |-> FALSE, value |-> v]

Throw == [threw |-> TRUE, value |-> <<>>]

parseDDMMYYYYToISO(dateStr) ==
    LET parts == Split(dateStr, "/")
    IN  IF Len(parts) < 2 THEN Throw
        ELSE LET day   == parts[1]
                 month == parts[2]
                 year  == IF Len(parts) >= 3 THEN parts[3] ELSE Undefined
             IN  Return(year \o <<"-">> \o padStart2(month) \o <<"-">> \o padStart2(day))

EmptyEntries == [k \in {} |-> <<>>]

EntriesOn(grouped, isoDate) ==
    IF isoDate \in DOMAIN grouped THEN grouped[isoDate] ELSE <<>>

generateMonthDaysWithEntries(year, month, grouped) ==
    LET days == generateMonthDays(year, month)
    IN  [k \in 1..Len(days) |->
           [date           |-> days[k].z,
            isCurrentMonth |-> days[k].isCurrentMonth,
            journalEntries |-> EntriesOn(grouped, formatDateToISO(days[k].z))]]

(***************************************************************************)
(* datasetLoader                                                            *)
(***************************************************************************)
generateEntryId(raw, index) == <<RemoveSlashes(raw.date), index>>

transformRawEntry(raw, index) ==
    LET date == parseDDMMYYYYToISO(raw.date)
    IN  IF date.threw THEN Throw
        ELSE Return([id     |-> generateEntryId(raw, index),
                     date   |-> date.value,
                     rating |-> raw.rating])

\* new Date("YYYY-MM-DD").getTime(), in days.
DateTime(isoDate) ==
    LET parts == Split(isoDate, "-")
    IN  DaysFromCivil(StrToNum(parts[1]), StrToNum(parts[2]), StrToNum(parts[3]))

\* Array.prototype.sort, stable, by decreasing key, of a sequence of [k, v].
RECURSIVE SortDescending(_)
SortDescending(ps) ==
    IF ps = <<>> THEN <<>>
    ELSE LET rest == SortDescending(SubSeq(ps, 1, Len(ps) - 1))
             e    == ps[Len(ps)]
             p    == Cardinality({i \in 1..Len(rest) : rest[i].k >= e.k})
         IN  SubSeq(rest, 1, p) \o <<e>> \o SubSeq(rest, p + 1, Len(rest))

RECURSIVE SortAscending(_)
SortAscending(ps) ==
    IF ps = <<>> THEN <<>>
    ELSE LET rest == SortAscending(SubSeq(ps, 1, Len(ps) - 1))
             e    == ps[Len(ps)]
             p    == Cardinality({i \in 1..Len(rest) : rest[i].k <= e.k})
         IN  SubSeq(rest, 1, p) \o <<e>> \o SubSeq(rest, p + 1, Len(rest))

Values(ps) == [i \in 1..Len(ps) |-> ps[i].v]

loadJournalEntries(jsonData) ==
    IF ~jsonData.isArray THEN <<>>
    ELSE LET raws == jsonData.items
             ts   == [i \in 1..Len(raws) |-> transformRawEntry(raws[i], i - 1)]
         IN  IF \E i \in 1..Len(ts) : ts[i].threw THEN <<>>
             ELSE Values(SortDescending(
                    [i \in 1..Len(ts) |->
                       [k |-> DateTime(ts[i].value.date), v |-> ts[i].value]]))

groupEntriesByDateAscending(entries) ==
    [dateKey \in {entries[i].date : i \in 1..Len(entries)} |->
        LET bucket == SelectSeq(entries, LAMBDA e : e.date = dateKey)
        IN  Values(SortAscending(
              [i \in 1..Len(bucket) |-> [k |-> bucket[i].rating, v |-> bucket[i]]]))]

groupEntriesByDate(entries) ==
    [dateKey \in {entries[i].date : i \in 1..Len(entries)} |->
        LET bucket == SelectSeq(entries, LAMBDA e : e.date = dateKey)
        IN  Values(SortDescending(
              [i \in 1..Len(bucket) |-> [k |-> bucket[i].rating, v |-> bucket[i]]]))]

JsonArray(raws) == [isArray |-> TRUE, items |-> raws]

JsonOther == [isArray |-> FALSE, items |-> <<>>]

\* What the try block of loadJournalData returns or throws.
loadJournalDataTry(dataSource) ==
    IF dataSource.kind = "url"
    THEN IF dataSource.fetch \in {"rejected", "notOk", "badJson"}
         THEN Throw
         ELSE Return(groupEntriesByDate(loadJournalEntries(dataSource.json)))
    ELSE Return(groupEntriesByDate(loadJournalEntries(dataSource.json)))

loadJournalDataNoCatch(dataSource) == loadJournalDataTry(dataSource)

loadJournalData(dataSource) ==
    LET r == loadJournalDataTry(dataSource)
    IN  IF r.threw THEN Return(EmptyEntries) ELSE r

(***************************************************************************)
(* Header: the year field and its Go button                                *)
(***************************************************************************)

\* Number values; NaN compares false with everything.
NaN == [nan |-> TRUE, value |-> 0]

Num(n) == [nan |-> FALSE, value |-> n]

RECURSIVE DigitPrefix(_)
DigitPrefix(str) ==
    IF str = <<>> \/ ~(\E d \in 1..10 : Digits[d] = str[1])
    THEN <<>>
    ELSE <<str[1]>> \o DigitPrefix(Tail(str))

\* parseInt without a radix on a string without blanks or a 0x prefix: an
\* optional sign, then the longest run of digits; whatever follows is
\* ignored, and no digit at all gives NaN.
parseInt(str) ==
    LET signed == str # <<>> /\ str[1] \in {"+", "-"}
        ds     == DigitPrefix(IF signed THEN Tail(str) ELSE str)
    IN  IF ds = <<>> THEN NaN
        ELSE IF signed /\ str[1] = "-" THEN Num(0 - StrToNum(ds))
        ELSE Num(StrToNum(ds))

\* The Go button.  The result holds the call of onJumpToYear, if one is
\* made, and the two states of the header after the handler.
handleYearJump(yearInput, showYearInput) ==
    LET year == parseInt(yearInput)
    IN  IF ~year.nan /\ year.value >= 1900 /\ year.value <= 2100
        THEN [requested |-> TRUE, year |-> year.value, month |-> 0,
              yearInput |-> <<>>, showYearInput |-> FALSE]
        ELSE [requested |-> FALSE, year |-> 0, month |-> 0,
              yearInput |-> yearInput, showYearInput |-> showYearInput]

(***************************************************************************)
(* Calls of the dateUtils functions on their own                           *)
(***************************************************************************)

CalcYears == {1900, 2000, 2023, 2024, 2100}

CalcMonths == (0 - 3)..14

StartYears == {2020, 2024}

StartMonths == (0 - 25)..25

MaxCount == 3

RawDates ==
    { <<"1", "5", "/", "0", "3", "/", "2", "0", "2", "4">>,
      <<"1", "5", "/", "3", "/", "2", "0", "2", "4">>,
      <<"5", "/", "3", "/", "2", "0", "2", "4">>,
      <<"1", "/", "1", "2", "/", "2", "0", "2", "3">>,
      <<"2", "0", "2", "4", "0", "3", "1", "5">> }

RawRatings == {1, 5}

MaxRaw == 2

RawEntries == [date : RawDates, rating : RawRatings]

RawDatasets == UNION {[1..n -> RawEntries] : n \in 0..MaxRaw}

DataSources ==
    {[kind |-> k, fetch |-> IF k = "url" THEN "ok" ELSE "none", json |-> JsonArray(raws)] :
        k \in {"array", "url"}, raws \in RawDatasets}
    \cup {[kind |-> "array", fetch |-> "none", json |-> JsonOther],
          [kind |-> "url", fetch |-> "ok", json |-> JsonOther]}
    \cup {[kind |-> "url", fetch |-> f, json |-> JsonOther] :
            f \in {"rejected", "notOk", "badJson"}}

Ratings == {1, 3, 5}

MaxEntries == 3

IsoDates == {formatDateToISO(DaysFromCivil(2024, 3, 15)),
             formatDateToISO(DaysFromCivil(2023, 12, 1))}

EntryLists ==
    UNION {{[i \in 1..n |-> [id |-> i, date |-> f[i].date, rating |-> f[i].rating]] :
              f \in [1..n -> [date : IsoDates, rating : Ratings]]} : n \in 0..MaxEntries}

GenerateMonthDaysCalls ==
    {[fn |-> "generateMonthDays", year |-> y, month |-> m, count |-> 0] :
       y \in CalcYears, m \in CalcMonths}

GenerateMonthsCalls ==
    {[fn |-> "generateMonths", year |-> y, month |-> m, count |-> c] :
       y \in StartYears, m \in StartMonths, c \in 1..MaxCount}

MonthStepCalls ==
    {[fn |-> "monthSteps", year |-> y, month |-> m, count |-> 0] :
       y \in CalcYears, m \in 0..11}

LoadJournalDataCalls ==
    {[fn |-> "loadJournalData", source |-> ds] : ds \in DataSources}

GroupEntriesByDateCalls ==
    {[fn |-> "groupEntriesByDate", entries |-> es] : es \in EntryLists}

\* What the number field of the header can hold when Go is pressed: nothing,
\* whole years in and out of range, and numbers that are not whole years.
YearInputs ==
    {NumToStr(n) : n \in {0, 1899, 1900, 2025, 2100, 2101, 20250}}
      \cup { <<>>,
             <<"-", "2", "0", "2", "5">>,
             <<"1", "e", "3">>,
             <<".", "5">>,
             <<"2", "0", "2", "5", ".", "5">>,
             <<"1", "8", "9", "9", ".", "9">> }

HandleYearJumpCalls ==
    {[fn |-> "handleYearJump", yearInput |-> str, showYearInput |-> TRUE] :
       str \in YearInputs}

InitCalc ==
    /\ EngineInit
    /\ calcIn \in GenerateMonthDaysCalls \cup GenerateMonthsCalls
                    \cup LoadJournalDataCalls \cup GroupEntriesByDateCalls
                    \cup MonthStepCalls \cup HandleYearJumpCalls
    /\ calcOut = <<>>
    /\ PageIdle

CallGenerateMonthDays ==
    /\ calcIn.fn = "generateMonthDays"
    /\ calcOut = <<>>
    /\ calcOut' = generateMonthDays(calcIn.year, calcIn.month)
    /\ UNCHANGED <<phase, props, months, isLoading, isScrollLocked,
                   currentVisibleMonth, closure, listener, timers, throttle,
                   scrollTop, lateRuns, lastOp, calcIn, page>>

CallGenerateMonths ==
    /\ calcIn.fn = "generateMonths"
    /\ calcOut = <<>>
    /\ calcOut' = generateMonths(calcIn.year, calcIn.month, calcIn.count)
    /\ UNCHANGED <<phase, props, months, isLoading, isScrollLocked,
                   currentVisibleMonth, closure, listener, timers, throttle,
                   scrollTop, lateRuns, lastOp, calcIn, page>>

CallLoadJournalData ==
    /\ calcIn.fn = "loadJournalData"
    /\ calcOut = <<>>
    /\ calcOut' = <<loadJournalData(calcIn.source)>>
    /\ UNCHANGED <<phase, props, months, isLoading, isScrollLocked,
                   currentVisibleMonth, closure, listener, timers, throttle,
                   scrollTop, lateRuns, lastOp, calcIn, page>>

CallGroupEntriesByDate ==
    /\ calcIn.fn = "groupEntriesByDate"
    /\ calcOut = <<>>
    /\ calcOut' = <<groupEntriesByDate(calcIn.entries)>>
    /\ UNCHANGED <<phase, props, months, isLoading, isScrollLocked,
                   currentVisibleMonth, closure, listener, timers, throttle,
                   scrollTop, lateRuns, lastOp, calcIn, page>>

\* getNextMonth and getPreviousMonth of a month, and each applied to the
\* result of the other.
CallMonthSteps ==
    /\ calcIn.fn = "monthSteps"
    /\ calcOut = <<>>
    /\ LET next     == getNextMonth(calcIn.year, calcIn.month)
           previous == getPreviousMonth(calcIn.year, calcIn.month)
       IN  calcOut' = <<[next     |-> next,
                         previous |-> previous,
                         back     |-> getPreviousMonth(next.year, next.month),
                         forth    |-> getNextMonth(previous.year, previous.month)]>>
    /\ UNCHANGED <<phase, props, months, isLoading, isScrollLocked,
                   currentVisibleMonth, closure, listener, timers, throttle,
                   scrollTop, lateRuns, lastOp, calcIn, page>>

CallHandleYearJump ==
    /\ calcIn.fn = "handleYearJump"
    /\ calcOut = <<>>
    /\ calcOut' = <<handleYearJump(calcIn.yearInput, calcIn.showYearInput)>>
    /\ UNCHANGED <<phase, props, months, isLoading, isScrollLocked,
                   currentVisibleMonth, closure, listener, timers, throttle,
                   scrollTop, lateRuns, lastOp, calcIn, page>>

NextCalc ==
    \/ CallGenerateMonthDays
    \/ CallGenerateMonths
    \/ CallLoadJournalData
    \/ CallGroupEntriesByDate
    \/ CallMonthSteps
    \/ CallHandleYearJump

SpecCalc == InitCalc /\ [][NextCalc]_vars

(***************************************************************************)
(* CalendarPage and the journal modal                                      *)
(***************************************************************************)

MaxNavTimers == 2

March15 == <<"1", "5", "/", "0", "3", "/", "2", "0", "2", "4">>

December1 == <<"1", "/", "1", "2", "/", "2", "0", "2", "3">>

Raw(date, rating) == [date |-> date, rating |-> rating]

\* The journal files tried: none, one entry, two days, and two entries on a
\* day in and against the order of their ratings.
PageRawDatasets ==
    { <<>>,
      <<Raw(March15, 5)>>,
      <<Raw(March15, 5), Raw(December1, 5)>>,
      <<Raw(March15, 1), Raw(December1, 5), Raw(March15, 5)>>,
      <<Raw(December1, 5), Raw(March15, 5), Raw(March15, 5)>> }

\* The journals the page can hold once its load effect has run.
PageJournals ==
    {loadJournalData([kind |-> "array", fetch |-> "none",
                      json |-> JsonArray(raws)]).value : raws \in PageRawDatasets}

hook == <<phase, props, months, isLoading, isScrollLocked, currentVisibleMonth,
          closure, listener, timers, throttle, scrollTop, lateRuns, lastOp>>

ModalOp(op, index, live, id) == [op |-> op, index |-> index, live |-> live, id |-> id]

NavTimer(kind, index) == [kind |-> kind, index |-> index, live |-> TRUE]

\* Object.values(entriesByDate).flat(): groupEntriesByDate inserted the keys
\* in the order of the list loadJournalEntries sorted, latest date first.
RECURSIVE FlatValues(_, _)
FlatValues(grouped, keys) ==
    IF keys = {} THEN <<>>
    ELSE LET k == CHOOSE k \in keys : \A l \in keys : DateTime(l) <= DateTime(k)
         IN  grouped[k] \o FlatValues(grouped, keys \ {k})

\* allEntries.sort((a, b) => dateA.getTime() - dateB.getTime()), stable.
RECURSIVE SortByDate(_)
SortByDate(es) ==
    IF es = <<>> THEN <<>>
    ELSE LET rest == SortByDate(SubSeq(es, 1, Len(es) - 1))
             e    == es[Len(es)]
             p    == Cardinality({i \in 1..Len(rest) :
                                    DateTime(rest[i].date) <= DateTime(e.date)})
         IN  SubSeq(rest, 1, p) \o <<e>> \o SubSeq(rest, p + 1, Len(rest))

\* Array.prototype.findIndex on the id, 0-based, -1 when absent.
findIndex(es, id) ==
    LET hits == {i \in 1..Len(es) : es[i].id = id}
    IN  IF hits = {} THEN 0 - 1
        ELSE (CHOOSE i \in hits : \A j \in hits : i <= j) - 1

\* The page with its journal loaded; the hook of the grid is left as
\* constructed.
InitModal ==
    /\ EngineInit
    /\ initialMonth = 1
    /\ calcIn = NoCall
    /\ calcOut = <<>>
    /\ entriesByDate \in PageJournals
    /\ isModalOpen = FALSE
    /\ selectedEntries = <<>>
    /\ currentEntryIndex = 0
    /\ isAnimating = FALSE
    /\ navTimers = <<>>
    /\ modalOp = ModalOp("none", 0, TRUE, <<>>)

\* CalendarPage renders the modal, whose components then hold listeners.
ModalRendered == isModalOpen /\ Len(selectedEntries) > 0

\* A day that holds no entry.
EmptyDay == <<"2", "0", "2", "4", "-", "0", "1", "-", "0", "1">>

\* A click on a day cell with the entries the grid filed under it.
handleDayClick ==
    /\ \E date \in DOMAIN entriesByDate \cup {EmptyDay} :
          LET entries == EntriesOn(entriesByDate, date)
          IN  IF Len(entries) > 0
              THEN LET sortedEntries ==
                           SortByDate(FlatValues(entriesByDate, DOMAIN entriesByDate))
                       clickedDayFirstEntry == entries[1]
                       startIndex == findIndex(sortedEntries, clickedDayFirstEntry.id)
                   IN  /\ selectedEntries' = sortedEntries
                       /\ currentEntryIndex' = IF startIndex >= 0 THEN startIndex ELSE 0
                       /\ isModalOpen' = TRUE
                       /\ modalOp' = ModalOp("dayClick", currentEntryIndex', TRUE,
                                             clickedDayFirstEntry.id)
              ELSE /\ modalOp' = ModalOp("emptyDayClick", currentEntryIndex, TRUE, <<>>)
                   /\ UNCHANGED <<selectedEntries, currentEntryIndex, isModalOpen>>
    /\ UNCHANGED <<hook, calcIn, calcOut, entriesByDate, isAnimating, navTimers>>

\* Escape, the backdrop and the close buttons.  The modal unmounts: its
\* state is dropped and its pending callbacks belong to no component.
handleModalClose ==
    /\ ModalRendered
    /\ isModalOpen' = FALSE
    /\ selectedEntries' = <<>>
    /\ currentEntryIndex' = 0
    /\ isAnimating' = FALSE
    /\ navTimers' = [i \in 1..Len(navTimers) |-> [navTimers[i] EXCEPT !.live = FALSE]]
    /\ modalOp' = ModalOp("close", 0, TRUE, <<>>)
    /\ UNCHANGED <<hook, calcIn, calcOut, entriesByDate>>

handleModalNavigate(newIndex) == currentEntryIndex' = newIndex

\* The key handler of the modal without the test of ArrowRight at the last
\* entry.
ModalKeyDownPastEnd ==
    /\ ModalRendered
    /\ \E key \in {"ArrowLeft", "ArrowRight"} :
          /\ \/ key = "ArrowLeft" /\ currentEntryIndex > 0
                   /\ handleModalNavigate(currentEntryIndex - 1)
             \/ key = "ArrowRight"
                   /\ handleModalNavigate(currentEntryIndex + 1)
          /\ modalOp' = ModalOp(key, currentEntryIndex', TRUE, <<>>)
    /\ UNCHANGED <<hook, calcIn, calcOut, entriesByDate, isModalOpen,
                   selectedEntries, isAnimating, navTimers>>

\* JournalModal: ArrowLeft and ArrowRight, and the two arrow buttons.
ModalKeyDown ==
    /\ ModalRendered
    /\ \E key \in {"ArrowLeft", "ArrowRight"} :
          /\ \/ key = "ArrowLeft" /\ currentEntryIndex > 0
                   /\ handleModalNavigate(currentEntryIndex - 1)
             \/ key = "ArrowRight" /\ currentEntryIndex < Len(selectedEntries) - 1
                   /\ handleModalNavigate(currentEntryIndex + 1)
          /\ modalOp' = ModalOp(key, currentEntryIndex', TRUE, <<>>)
    /\ UNCHANGED <<hook, calcIn, calcOut, entriesByDate, isModalOpen,
                   selectedEntries, isAnimating, navTimers>>

\* JournalModal: a dot of the entry list.
ModalDot ==
    /\ ModalRendered
    /\ \E index \in 0..(Len(selectedEntries) - 1) :
          /\ handleModalNavigate(index)
          /\ modalOp' = ModalOp("dot", index, TRUE, <<>>)
    /\ UNCHANGED <<hook, calcIn, calcOut, entriesByDate, isModalOpen,
                   selectedEntries, isAnimating, navTimers>>

\* JournalModal.handleTouchEnd: a swipe longer than minSwipeDistance asks
\* for the neighbour 50 ms later, with the index of this render.
ModalTouchEnd ==
    /\ ModalRendered
    /\ Len(navTimers) < MaxNavTimers
    /\ \E swipe \in {"left", "right"} :
          /\ \/ swipe = "left" /\ currentEntryIndex < Len(selectedEntries) - 1
                   /\ navTimers' = Append(navTimers, NavTimer("navigate", currentEntryIndex + 1))
             \/ swipe = "right" /\ currentEntryIndex > 0
                   /\ navTimers' = Append(navTimers, NavTimer("navigate", currentEntryIndex - 1))
          /\ modalOp' = ModalOp("touchEnd", currentEntryIndex, TRUE, <<>>)
    /\ UNCHANGED <<hook, calcIn, calcOut, entriesByDate, isModalOpen,
                   selectedEntries, currentEntryIndex, isAnimating>>

\* SwipeNavigator.handleNavigate as the render that created it sees the
\* state (animating, currentIndex).
handleNavigate(newIndex, animating, currentIndex, mounted) ==
    IF animating \/ newIndex = currentIndex
    THEN UNCHANGED <<currentEntryIndex, isAnimating, navTimers>>
    ELSE /\ isAnimating' = IF mounted THEN TRUE ELSE isAnimating
         /\ handleModalNavigate(newIndex)
         /\ navTimers' = Append(navTimers, [NavTimer("animationEnd", 0)
                                               EXCEPT !.live = mounted])

\* SwipeNavigator.handleKeyDown and its two buttons.
SwipeKeyDown ==
    /\ ModalRendered
    /\ ~isAnimating
    /\ Len(navTimers) < MaxNavTimers
    /\ \E key \in {"ArrowLeft", "ArrowRight", "Home", "End"} :
          LET total == Len(selectedEntries)
          IN  /\ \/ key = "ArrowLeft" /\ currentEntryIndex > 0
                       /\ handleNavigate(currentEntryIndex - 1, isAnimating,
                                         currentEntryIndex, TRUE)
                 \/ key = "ArrowRight" /\ currentEntryIndex < total - 1
                       /\ handleNavigate(currentEntryIndex + 1, isAnimating,
                                         currentEntryIndex, TRUE)
                 \/ key = "Home"
                       /\ handleNavigate(0, isAnimating, currentEntryIndex, TRUE)
                 \/ key = "End"
                       /\ handleNavigate(total - 1, isAnimating, currentEntryIndex, TRUE)
              /\ modalOp' = ModalOp(key, currentEntryIndex', TRUE, <<>>)
    /\ UNCHANGED <<hook, calcIn, calcOut, entriesByDate, isModalOpen, selectedEntries>>

\* SwipeNavigator.handleTouchEnd: a swipe asks for the neighbour 150 ms
\* later through the handleNavigate of this render.
SwipeTouchEnd ==
    /\ ModalRendered
    /\ ~isAnimating
    /\ Len(navTimers) < MaxNavTimers
    /\ \E swipe \in {"next", "previous"} :
          /\ \/ swipe = "next" /\ currentEntryIndex < Len(selectedEntries) - 1
                   /\ navTimers' = Append(navTimers, NavTimer("swipe", currentEntryIndex + 1))
             \/ swipe = "previous" /\ currentEntryIndex > 0
                   /\ navTimers' = Append(navTimers, NavTimer("swipe", currentEntryIndex - 1))
          /\ modalOp' = ModalOp("swipeEnd", currentEntryIndex, TRUE, <<>>)
    /\ UNCHANGED <<hook, calcIn, calcOut, entriesByDate, isModalOpen,
                   selectedEntries, currentEntryIndex, isAnimating>>

\* A delayed callback of the modal runs.  The delays differ (50, 150 and
\* 300 ms), so the callbacks can run in any order.
FireNavTimer ==
    /\ \E i \in 1..Len(navTimers) :
          LET t    == navTimers[i]
              rest == SubSeq(navTimers, 1, i - 1) \o SubSeq(navTimers, i + 1, Len(navTimers))
          IN  /\ \/ /\ t.kind = "navigate"
                    /\ handleModalNavigate(t.index)
                    /\ navTimers' = rest
                    /\ UNCHANGED isAnimating
                 \/ /\ t.kind = "swipe"
                    /\ handleModalNavigate(t.index)
                    /\ isAnimating' = IF t.live THEN TRUE ELSE isAnimating
                    /\ navTimers' = Append(rest, [NavTimer("animationEnd", 0)
                                                    EXCEPT !.live = t.live])
                 \/ /\ t.kind = "animationEnd"
                    /\ isAnimating' = IF t.live THEN FALSE ELSE isAnimating
                    /\ navTimers' = rest
                    /\ UNCHANGED currentEntryIndex
              /\ modalOp' = ModalOp(t.kind, currentEntryIndex', t.live, <<>>)
    /\ UNCHANGED <<hook, calcIn, calcOut, entriesByDate, isModalOpen, selectedEntries>>

NextModal ==
    \/ handleDayClick
    \/ handleModalClose
    \/ ModalKeyDown
    \/ ModalDot
    \/ ModalTouchEnd
    \/ SwipeKeyDown
    \/ SwipeTouchEnd
    \/ FireNavTimer

SpecModal == InitModal /\ [][NextModal]_vars

(***************************************************************************)
(* Reference calendar, independent of the platform arithmetic above        *)
(***************************************************************************)

NormMonth(t) == [year |-> t \div 12, month |-> t % 12]

RefIsLeap(y) == (y % 4 = 0 /\ y % 100 # 0) \/ y % 400 = 0

RefDaysInMonth(y, m) ==
    IF m = 1 THEN (IF RefIsLeap(y) THEN 29 ELSE 28)
    ELSE IF m \in {3, 5, 8, 10} THEN 30 ELSE 31

\* Weekday (0 = Sunday) of the first of month m (0..11) of year y.
RefFirstWeekday(y, m) ==
    LET t  == <<0, 3, 2, 5, 0, 3, 5, 1, 4, 6, 2, 4>>
        yy == IF m < 2 THEN y - 1 ELSE y
    IN  (yy + yy \div 4 - yy \div 100 + yy \div 400 + t[m + 1] + 1) % 7

\* The 2*bufferMonths+1 consecutive calendar months centred on (y, m).
ExpectedWindow(y, m) ==
    [k \in 1..(2 * bufferMonths + 1) |-> NormMonth(y * 12 + m - bufferMonths + k - 1)]

LeadingCount(days) ==
    Cardinality({k \in 1..Len(days) : \A j \in 1..k : ~days[j].isCurrentMonth})

VisibleKey == <<currentVisibleMonth.year, currentVisibleMonth.month>>

(***************************************************************************)
(* Properties                                                              *)
(***************************************************************************)

\* C1: in every reachable state no two entries of the month window have the
\* same (year, month) key.
C1_NoDuplicateKeys ==
    \A i \in 1..Len(months) : \A j \in 1..Len(months) :
        i # j => Key(months[i]) # Key(months[j])

\* C1 witness: an applied ExpandStart whose batch collided with keys of a
\* window of several months.
C1_Witness ==
    /\ lastOp.op = "expandStart"
    /\ lastOp.added < ExpandBatch
    /\ Len(months) > 1

\* C2: when a jump is applied, the window is exactly the 2*bufferMonths+1
\* consecutive calendar months (month in 0..11) with the target in the
\* middle, and visibleMonth is the target.
C2_JumpWindow ==
    lastOp.op = "jump" =>
        /\ months = ExpectedWindow(lastOp.sel.year, lastOp.sel.month)
        /\ months[bufferMonths + 1] = lastOp.sel
        /\ VisibleKey = Key(lastOp.sel)

\* C3: once the delayed load of Initialize has run, the window holds exactly
\* the 2*bufferMonths+1 consecutive calendar months around the initial month,
\* the initial month among them, and visibleMonth is the initial month.
C3_InitialWindow ==
    lastOp.op = "initLoad" =>
        /\ Len(months) = 2 * bufferMonths + 1
        /\ Keys(months) = Keys(ExpectedWindow(initialYear, initialMonth))
        /\ <<initialYear, initialMonth>> \in Keys(months)
        /\ VisibleKey = <<initialYear, initialMonth>>

\* C4: an ExpandEnd requested while an earlier ExpandEnd is pending is
\* dropped, so at most one ExpandEnd timer is ever pending.
C4_OneExpandEndPending == CountKind(timers, {"expandEnd"}) <= 1

\* C5: the compensating write moves the scroll offset read by the scroll
\* evaluation by exactly the height of the months prepended since.
C5_ExactCompensation ==
    lastOp.op = "compensate" => scrollTop = lastOp.top + MonthHeight * lastOp.pre

\* C6: isLoading is true whenever an accepted ExpandStart, ExpandEnd or JumpTo
\* has not been applied yet.
C6_LoadingWhilePending ==
    (Mounted /\ CountKind(timers, {"expandEnd", "expandStart", "jump"}) > 0)
        => isLoading

\* C7: after the unmount the scroll listener is gone, no timer or frame
\* callback of the hook is pending and none has run.
C7_TeardownClean ==
    phase = "unmounted" =>
        /\ ~listener
        /\ timers = <<>>
        /\ rafQueue = 0
        /\ ~lateRuns

\* C8: a detection pass over a non-empty list of rendered months sets
\* visibleMonth to the first month nearest to the centre of the container.
C8_DetectNearest ==
    (lastOp.op \in {"frame", "initDetect"} /\ Len(months) > 0) =>
        VisibleKey = Key(months[ClosestIndex(Len(months), scrollTop)])

\* C9: a detection pass that selects the month that is already visibleMonth
\* neither replaces visibleMonth nor invokes onVisibleMonthChange.
C9_NoRedundantNotification ==
    (/\ lastOp.op \in {"frame", "initDetect"}
     /\ lastOp.prev # Null
     /\ Key(lastOp.sel) = <<lastOp.prev.year, lastOp.prev.month>>)
        => (~lastOp.notified /\ currentVisibleMonth = lastOp.prev)

\* C10: generateMonthDays returns 42 Days: as many leading Days outside the
\* month as the weekday index of the 1st, then exactly the days of the month.
C10_GridShape ==
    (calcIn.fn = "generateMonthDays" /\ calcOut # <<>>) =>
        LET n    == NormMonth(calcIn.year * 12 + calcIn.month)
            lead == LeadingCount(calcOut)
            dim  == RefDaysInMonth(n.year, n.month)
        IN  /\ Len(calcOut) = GridSlots
            /\ lead = RefFirstWeekday(n.year, n.month)
            /\ \A k \in (lead + 1)..(lead + dim) : calcOut[k].isCurrentMonth
            /\ \A k \in (lead + dim + 1)..Len(calcOut) : ~calcOut[k].isCurrentMonth

\* C10 witness: a computed grid that begins with days of the previous month.
C10_Witness ==
    /\ calcIn.fn = "generateMonthDays"
    /\ calcOut # <<>>
    /\ LeadingCount(calcOut) > 0

MonthKey(m) == m.year * 12 + m.month

\* C11: generateMonths(startYear, startMonth, count) returns exactly count
\* records whose keys year*12+month are strictly increasing, hence without
\* duplicates, for every start offset, negative ones and multiples of 12
\* included.
C11_StrictlyIncreasingKeys ==
    (calcIn.fn = "generateMonths" /\ calcOut # <<>>) =>
        /\ Len(calcOut) = calcIn.count
        /\ \A i, j \in 1..Len(calcOut) :
              i < j => MonthKey(calcOut[i]) < MonthKey(calcOut[j])

\* C12: the i-th record of generateMonths is the floor normalisation of
\* startYear*12 + startMonth + i: its month is in 0..11 and year*12+month
\* equals that index.
C12_FloorNormalised ==
    (calcIn.fn = "generateMonths" /\ calcOut # <<>>) =>
        \A k \in 1..Len(calcOut) :
            /\ calcOut[k].month \in 0..11
            /\ MonthKey(calcOut[k]) =
                   calcIn.year * 12 + calcIn.month + (k - 1)

\* Reference reading of a raw date: D/M/YYYY with one or two digits for the
\* day and the month and four digits for the year.
IsDigits(str) == \A i \in 1..Len(str) : \E d \in 1..10 : Digits[d] = str[i]

SlashCount(str) == Cardinality({i \in 1..Len(str) : str[i] = "/"})

WellFormed(str) ==
    /\ SlashCount(str) = 2
    /\ LET parts == Split(str, "/")
       IN  /\ Len(parts[1]) \in {1, 2} /\ IsDigits(parts[1])
           /\ Len(parts[2]) \in {1, 2} /\ IsDigits(parts[2])
           /\ Len(parts[3]) = 4 /\ IsDigits(parts[3])

RefDate(str) ==
    LET parts == Split(str, "/")
    IN  [day |-> StrToNum(parts[1]), month |-> StrToNum(parts[2]),
         year |-> StrToNum(parts[3])]

RefDigit(n, place) == Digits[((n \div place) % 10) + 1]

RefIsoKey(y, m, d) ==
    << RefDigit(y, 1000), RefDigit(y, 100), RefDigit(y, 10), RefDigit(y, 1), "-",
       RefDigit(m, 10), RefDigit(m, 1), "-", RefDigit(d, 10), RefDigit(d, 1) >>

\* The raw dataset a data source delivers, when it delivers an array.
Delivered(source) ==
    IF source.fetch \in {"none", "ok"} /\ source.json.isArray
    THEN source.json.items ELSE <<>>

HasEntry(entries, index) == \E j \in 1..Len(entries) : entries[j].id[2] = index

\* C13: every raw entry with a well-formed D/M/YYYY date is filed under the
\* zero-padded key YYYY-MM-DD and under no other key, and the grid of its
\* month carries it on exactly the Day of that date ('15/03/2024' on 15 March
\* 2024 in generateMonthDays(2024, 2, entries)).
C13_FiledUnderIsoDate ==
    (calcIn.fn = "loadJournalData" /\ calcOut # <<>>) =>
        LET raws == Delivered(calcIn.source)
            g    == calcOut[1].value
        IN  \A i \in 1..Len(raws) :
              WellFormed(raws[i].date) =>
                LET r    == RefDate(raws[i].date)
                    key  == RefIsoKey(r.year, r.month, r.day)
                    days == generateMonthDaysWithEntries(r.year, r.month - 1, g)
                    slot == RefFirstWeekday(r.year, r.month - 1) + r.day
                IN  /\ \A k \in DOMAIN g : HasEntry(g[k], i - 1) <=> k = key
                    /\ key \in DOMAIN g
                    /\ \A k \in 1..Len(days) :
                          HasEntry(days[k].journalEntries, i - 1) <=> k = slot

\* The same for datasets in which every date is well-formed.
WellFormedDatasetsFiled ==
    (calcIn.fn = "loadJournalData" /\ calcOut # <<>>
       /\ \A i \in 1..Len(Delivered(calcIn.source)) :
            WellFormed(Delivered(calcIn.source)[i].date))
    => C13_FiledUnderIsoDate

LoadFails(source) ==
    \/ source.fetch \in {"rejected", "notOk", "badJson"}
    \/ ~source.json.isArray
    \/ \E i \in 1..Len(source.json.items) : SlashCount(source.json.items[i].date) = 0

GridMonths == {[year |-> 2024, month |-> 2], [year |-> 2023, month |-> 11]}

\* C14: loadJournalData never throws; when the fetch fails, the response is
\* not OK, or parsing or transforming the data fails, it returns the empty
\* mapping, and the month grids generated from it have no journal entries on
\* any day.
C14_LoadNeverThrows ==
    (calcIn.fn = "loadJournalData" /\ calcOut # <<>>) =>
        /\ ~calcOut[1].threw
        /\ LoadFails(calcIn.source) =>
             /\ calcOut[1].value = EmptyEntries
             /\ \A gm \in GridMonths :
                  LET days == generateMonthDaysWithEntries(gm.year, gm.month,
                                                           calcOut[1].value)
                  IN  \A k \in 1..Len(days) : days[k].journalEntries = <<>>

\* C14 witness: a load whose fetch was rejected has returned.
C14_Witness ==
    /\ calcIn.fn = "loadJournalData"
    /\ calcOut # <<>>
    /\ calcIn.source.fetch = "rejected"

\* C15: groupEntriesByDate puts every entry in exactly one place of exactly
\* one bucket, the bucket of its date, and every bucket is in order of
\* non-increasing rating.
C15_GroupedByDate ==
    (calcIn.fn = "groupEntriesByDate" /\ calcOut # <<>>) =>
        LET es == calcIn.entries
            g  == calcOut[1]
        IN  /\ \A i \in 1..Len(es) :
                 /\ es[i].date \in DOMAIN g
                 /\ \A k \in DOMAIN g :
                      Cardinality({j \in 1..Len(g[k]) : g[k][j] = es[i]})
                        = IF k = es[i].date THEN 1 ELSE 0
            /\ \A k \in DOMAIN g :
                 /\ \A j \in 1..Len(g[k]) : \E i \in 1..Len(es) : g[k][j] = es[i]
                 /\ \A j \in 1..(Len(g[k]) - 1) : g[k][j].rating >= g[k][j + 1].rating

\* C15 witness: a bucket of three entries with two different ratings.
C15_Witness ==
    /\ calcIn.fn = "groupEntriesByDate"
    /\ calcOut # <<>>
    /\ \E k \in DOMAIN calcOut[1] :
         /\ Len(calcOut[1][k]) = 3
         /\ calcOut[1][k][1].rating > calcOut[1][k][3].rating

\* C16: at no time are two expansions, ExpandStart or ExpandEnd in any mix,
\* pending together.
C16_OneExpansionInFlight ==
    CountKind(timers, {"expandEnd", "expandStart"}) <= 1

\* C17: the window is always in strictly increasing chronological order with
\* adjacent entries consecutive calendar months, and the delayed load of
\* Initialize leaves the initial month at index bufferMonths, its
\* predecessors before it.
C17_ChronologicalWindow ==
    /\ \A i \in 1..(Len(months) - 1) :
          MonthKey(months[i + 1]) = MonthKey(months[i]) + 1
    /\ lastOp.op = "initLoad" =>
          /\ Len(months) > bufferMonths
          /\ Key(months[bufferMonths + 1]) = <<initialYear, initialMonth>>

\* ms occurs in ns in the same relative order.
KeepsOrder(ms, ns) ==
    /\ \A i \in 1..Len(ms) : \E p \in 1..Len(ns) : ns[p] = ms[i]
    /\ \A i, j \in 1..Len(ms) :
          i < j => \E p, q \in 1..Len(ns) : p < q /\ ns[p] = ms[i] /\ ns[q] = ms[j]

\* C18: when an ExpandStart is applied to a non-empty window, the new first
\* entry is the calendar month immediately before the previous first entry
\* and the previous entries stay in the window in the same relative order.
C18_PrependsPredecessor ==
    [][(lastOp'.op = "expandStart" /\ Len(months) > 0) =>
          /\ MonthKey(months'[1]) = MonthKey(months[1]) - 1
          /\ KeepsOrder(months, months')]_vars

\* C19: when an ExpandEnd is applied to a non-empty window, the window becomes
\* the previous entries, in their order, followed by the ExpandBatch calendar
\* months that follow the previous last entry, in chronological order.
C19_AppendsSuccessors ==
    [][(lastOp'.op = "expandEnd" /\ Len(months) > 0) =>
          /\ Len(months') = Len(months) + ExpandBatch
          /\ SubSeq(months', 1, Len(months)) = months
          /\ \A k \in 1..ExpandBatch :
                months'[Len(months) + k] =
                    NormMonth(MonthKey(months[Len(months)]) + k)]_vars

\* C19 witness: an ExpandEnd has appended December and the January after it.
C19_Witness ==
    /\ lastOp.op = "expandEnd"
    /\ lastOp.added = ExpandBatch
    /\ months[Len(months) - 1].month = 11
    /\ months[Len(months)] = [year |-> months[Len(months) - 1].year + 1, month |-> 0]

\* C20: a compensating write happens only after a prepend has changed the
\* window since the write was scheduled; none is performed for a prepend that
\* left the window as it was.
C20_CompensateAfterPrepend ==
    lastOp.op = "compensate" => lastOp.pre > 0

\* C22: a raw entry whose date lacks the '/' separators neither makes the
\* load throw nor removes the other entries: it is in no bucket itself, and
\* every well-formed entry of the dataset is in the bucket of its date.
C22_MalformedEntryAlone ==
    (calcIn.fn = "loadJournalData" /\ calcOut # <<>>) =>
        LET raws == Delivered(calcIn.source)
            g    == calcOut[1].value
        IN  (\E i \in 1..Len(raws) : SlashCount(raws[i].date) = 0) =>
              /\ ~calcOut[1].threw
              /\ \A i \in 1..Len(raws) :
                    IF WellFormed(raws[i].date)
                    THEN LET r   == RefDate(raws[i].date)
                             key == RefIsoKey(r.year, r.month, r.day)
                         IN  key \in DOMAIN g /\ HasEntry(g[key], i - 1)
                    ELSE \A k \in DOMAIN g : ~HasEntry(g[k], i - 1)

\* C24: for month in 0..11, getNextMonth and getPreviousMonth return the
\* calendar month after and before (month in 0..11, wrapping to January of
\* year+1 and December of year-1) and undo each other.
C24_MonthStepsInverse ==
    (calcIn.fn = "monthSteps" /\ calcOut # <<>>) =>
        LET here == [year |-> calcIn.year, month |-> calcIn.month]
            t    == calcIn.year * 12 + calcIn.month
        IN  /\ calcOut[1].next = NormMonth(t + 1)
            /\ calcOut[1].previous = NormMonth(t - 1)
            /\ calcOut[1].next.month \in 0..11
            /\ calcOut[1].previous.month \in 0..11
            /\ calcOut[1].back = here
            /\ calcOut[1].forth = here

\* C24 witness: the steps from a December have been computed.
C24_Witness ==
    /\ calcIn.fn = "monthSteps"
    /\ calcOut # <<>>
    /\ calcIn.month = 11
    /\ calcOut[1].next.year = calcIn.year + 1

RefWeekday(y, m, d) == (RefFirstWeekday(y, m) + d - 1) % 7

\* The calendar date after (y, m, d), m in 0..11.
RefNextDate(y, m, d) ==
    IF d < RefDaysInMonth(y, m) THEN [year |-> y, month |-> m, day |-> d + 1]
    ELSE LET n == NormMonth(y * 12 + m + 1)
         IN  [year |-> n.year, month |-> n.month, day |-> 1]

DateOf(day) == [year |-> day.year, month |-> day.month, day |-> day.day]

\* C25: the 42 Days of generateMonthDays are 42 consecutive calendar dates,
\* the first of them a Sunday, and every date of the target month occurs
\* exactly once.
C25_ConsecutiveDates ==
    (calcIn.fn = "generateMonthDays" /\ calcOut # <<>>) =>
        LET n == NormMonth(calcIn.year * 12 + calcIn.month)
        IN  /\ Len(calcOut) = GridSlots
            /\ RefWeekday(calcOut[1].year, calcOut[1].month, calcOut[1].day) = 0
            /\ \A k \in 1..(Len(calcOut) - 1) :
                  DateOf(calcOut[k + 1]) =
                     RefNextDate(calcOut[k].year, calcOut[k].month, calcOut[k].day)
            /\ \A d \in 1..RefDaysInMonth(n.year, n.month) :
                  Cardinality({k \in 1..Len(calcOut) :
                     DateOf(calcOut[k]) = [year |-> n.year, month |-> n.month, day |-> d]}) = 1

\* C25 witness: the grid of a January that begins with days of the December
\* of the year before.
C25_Witness ==
    /\ calcIn.fn = "generateMonthDays"
    /\ calcOut # <<>>
    /\ calcIn.month = 0
    /\ calcOut[1].month = 11
    /\ calcOut[1].year = calcIn.year - 1

\* C23: while a frame callback of the throttled scroll handler is pending,
\* scroll events schedule no further callback: at most one callback is ever
\* pending, and one is pending exactly while the handler's ticking flag is set.
C23_OneFramePending ==
    /\ rafQueue <= 1
    /\ rafQueue = 1 <=> ticking

\* C23 witness: a scroll event has arrived while a callback scheduled at
\* least throttleDelay earlier was still pending.
C23_Witness ==
    /\ lastOp.op = "scroll"
    /\ rafQueue = 1
    /\ rafAged

\* C26: whenever the visible month is set, the window holds a month with its
\* (year, month) key.
C26_VisibleInWindow ==
    (Mounted /\ currentVisibleMonth # Null) => VisibleKey \in Keys(months)

\* C27: a jump requested while isLoading is true is dropped: no timer is
\* scheduled and months, the visible month and isLoading stay as they were.
C27_JumpDroppedWhileLoading ==
    [][(lastOp'.op \in {"jumpRequested", "jumpDropped"} /\ isLoading) =>
          /\ lastOp'.op = "jumpDropped"
          /\ UNCHANGED <<months, currentVisibleMonth, isLoading, timers>>]_vars

\* C27 witness: a jump has been dropped while an expansion or jump was pending.
C27_Witness ==
    /\ lastOp.op = "jumpDropped"
    /\ isLoading
    /\ CountKind(timers, {"expandEnd", "expandStart", "jump"}) > 0

\* The block of month t is in the rendered window.
Rendered(t) == \E k \in 1..Len(months) : Key(months[k]) = <<t.year, t.month>>

\* The scrollIntoView step of a jump to t found no element.
Missed(t) == lastOp.op = "jumpScroll" /\ lastOp.sel = t /\ lastOp.added = 0

\* The scrollIntoView step of a jump to t ran on the element of t.
Centred(t) == lastOp.op = "jumpScroll" /\ lastOp.sel = t /\ lastOp.added > 0

\* C21: once the scroll attempt of an applied jump has found no element, the
\* target month is scrolled to the centre of the container, provided its
\* element is rendered at some later time (or the component is unmounted).
C21_JumpEventuallyCentred ==
    \A t \in JumpTargets :
        [](Mounted /\ Missed(t)
             => ([]~Rendered(t) \/ <>(Centred(t) \/ ~Mounted)))

\* C28: under fair timers an accepted expansion or jump eventually leaves
\* isLoading false, and the scroll lock taken by an expansion is eventually
\* released.
C28_EventuallyReleased ==
    /\ (Mounted /\ isLoading) ~> (~isLoading \/ ~Mounted)
    /\ (Mounted /\ isScrollLocked) ~> (~isScrollLocked \/ ~Mounted)

\* C28 witness: the unlock timer of an expansion has released the lock with
\* nothing pending any more.
C28_Witness ==
    /\ Mounted
    /\ lastOp.op = "unlock"
    /\ ~isLoading
    /\ ~isScrollLocked

\* The text is a whole number written in digits.
WholeNumber(str) == str # <<>> /\ IsDigits(str)

\* C30: the Go button requests a jump to January of the entered year only
\* when the entered text is a whole number in 1900..2100; for any other
\* text no jump is requested and the header's input state is unchanged.
C30_JumpOnlyForWholeYear ==
    (calcIn.fn = "handleYearJump" /\ calcOut # <<>>) =>
        LET out == calcOut[1]
            ok  == /\ WholeNumber(calcIn.yearInput)
                   /\ StrToNum(calcIn.yearInput) \in 1900..2100
        IN  IF ok
            THEN out.requested => /\ out.year = StrToNum(calcIn.yearInput)
                                  /\ out.month = 0
            ELSE /\ ~out.requested
                 /\ out.yearInput = calcIn.yearInput
                 /\ out.showYearInput = calcIn.showYearInput

\* Every entry of the journal, as a set.
AllEntries ==
    UNION {{entriesByDate[k][j] : j \in 1..Len(entriesByDate[k])} :
             k \in DOMAIN entriesByDate}

\* C29: while the journal modal is open the current index addresses one of
\* the selected entries, whatever clicks, keys, dots, swipes, delayed swipe
\* callbacks and closes came before; and a day click opens the modal on the
\* clicked day's first entry within the list of all entries in ascending
\* date order.
C29_ModalIndexInRange ==
    /\ isModalOpen =>
          /\ 0 <= currentEntryIndex
          /\ currentEntryIndex < Len(selectedEntries)
    /\ modalOp.op = "dayClick" =>
          LET n == Len(selectedEntries)
              e == selectedEntries[currentEntryIndex + 1]
          IN  /\ isModalOpen
              /\ {selectedEntries[i] : i \in 1..n} = AllEntries
              /\ n = Cardinality(AllEntries)
              /\ \A i \in 1..n : \A j \in i..n :
                    DateTime(selectedEntries[i].date) <= DateTime(selectedEntries[j].date)
              /\ e.id = modalOp.id
              /\ e = entriesByDate[e.date][1]
              /\ \A i \in 1..currentEntryIndex : selectedEntries[i].date # e.date

\* C29 witness: the delayed swipe callback of a modal that was closed has
\* run on the modal opened after it and moved it to its last entry.
C29_Witness ==
    /\ isModalOpen
    /\ modalOp.op = "navigate"
    /\ ~modalOp.live
    /\ Len(selectedEntries) >= 2
    /\ currentEntryIndex = Len(selectedEntries) - 1

====
